---- MODULE Spec2Model ----
(***************************************************************************)
(* Model of advanced_code_helper.py: the Streamlit session (message        *)
(* history, uploaded artifact, API key), the script runs triggered by the  *)
(* widgets (API key input, clear button, file uploader, submit button),    *)
(* and the pure helpers (detect_file_type, the summarizers,                *)
(* build_context_message, get_ai_response's payload).                      *)
(*                                                                         *)
(* A Python str is a sequence of one-character strings; the fixed text of  *)
(* an f-string template is kept as one element of the sequence.  An        *)
(* Optional[str] is a record [isNone, val].                                *)
(***************************************************************************)
EXTENDS Integers, Sequences, FiniteSets, TLC

\* ------------------------------------------------------------------ bounds
MaxTurns == 1          \* submissions that reach the chat call, full inputs
MaxTurnsLong == 6      \* submissions that reach the chat call, plain questions

\* ------------------------------------------------------- program constants
HistoryWindow == 10    \* st.session_state.messages[-10:]
PreviewLimit == 2000   \* file_content[:2000]
VcfFixedColumns == 9   \* len(columns) - 9
HeaderShown == 5       \* columns[:5], functions[:5]

\* ------------------------------------------------------------ Python values
None == [isNone |-> TRUE, val |-> <<>>]
Some(s) == [isNone |-> FALSE, val |-> s]

\* truth value of an Optional[str]: None and '' are falsy
Truthy(o) == (~o.isNone) /\ o.val # <<>>

Whitespace == {" ", "\n", "\t", "\r"}

\* the Markdown code fence of the templates (three backquotes)
Fence == "<fence>"

UpperCase == <<"A","B","C","D","E","F","G","H","I","J","K","L","M",
               "N","O","P","Q","R","S","T","U","V","W","X","Y","Z">>
LowerCase == <<"a","b","c","d","e","f","g","h","i","j","k","l","m",
               "n","o","p","q","r","s","t","u","v","w","x","y","z">>

\* str.lower(), one character
LowerChar(c) ==
  IF \E i \in 1..26 : UpperCase[i] = c
  THEN LowerCase[CHOOSE i \in 1..26 : UpperCase[i] = c]
  ELSE c

\* str.upper(), one character
UpperChar(c) ==
  IF \E i \in 1..26 : LowerCase[i] = c
  THEN UpperCase[CHOOSE i \in 1..26 : LowerCase[i] = c]
  ELSE c

\* str.lower()
Lower(s) == [i \in 1..Len(s) |-> LowerChar(s[i])]

\* str.upper()
Upper(s) == [i \in 1..Len(s) |-> UpperChar(s[i])]

\* s[:n]
Take(s, n) == SubSeq(s, 1, IF n < Len(s) THEN n ELSE Len(s))

\* s[n:]  (n is the 0-based start)
Drop(s, n) == SubSeq(s, n + 1, Len(s))

\* s[-n:]
LastN(s, n) == IF Len(s) <= n THEN s ELSE SubSeq(s, Len(s) - n + 1, Len(s))

\* str.startswith(p)
StartsWith(s, p) == Len(p) <= Len(s) /\ SubSeq(s, 1, Len(p)) = p

\* str.strip()
Strip(s) ==
  IF \A i \in 1..Len(s) : s[i] \in Whitespace
  THEN <<>>
  ELSE LET a == CHOOSE i \in 1..Len(s) :
                  s[i] \notin Whitespace /\ \A j \in 1..(i-1) : s[j] \in Whitespace
           b == CHOOSE i \in 1..Len(s) :
                  s[i] \notin Whitespace /\ \A j \in (i+1)..Len(s) : s[j] \in Whitespace
       IN SubSeq(s, a, b)

\* c in s
Contains(s, c) == \E i \in 1..Len(s) : s[i] = c

\* str.rfind(c) as a 1-based index, 0 when absent
RFind(s, c) ==
  IF Contains(s, c)
  THEN CHOOSE i \in 1..Len(s) : s[i] = c /\ \A j \in (i+1)..Len(s) : s[j] # c
  ELSE 0

\* str.find(c) as a 1-based index, 0 when absent
Find(s, c) ==
  IF Contains(s, c)
  THEN CHOOSE i \in 1..Len(s) : s[i] = c /\ \A j \in 1..(i-1) : s[j] # c
  ELSE 0

\* str.split(sep) for a one-character separator
RECURSIVE Split(_, _)
Split(s, sep) ==
  IF ~Contains(s, sep)
  THEN <<s>>
  ELSE LET i == Find(s, sep)
       IN <<SubSeq(s, 1, i - 1)>> \o Split(SubSeq(s, i + 1, Len(s)), sep)

\* sep.join(parts)
RECURSIVE Join(_, _)
Join(parts, sep) ==
  IF parts = <<>> THEN <<>>
  ELSE IF Len(parts) = 1 THEN parts[1]
  ELSE parts[1] \o sep \o Join(Tail(parts), sep)

DigitChars == <<"0","1","2","3","4","5","6","7","8","9">>

\* str(n) for a non-negative int
RECURSIVE NatToStr(_)
NatToStr(n) ==
  IF n < 10 THEN <<DigitChars[n + 1]>>
  ELSE NatToStr(n \div 10) \o <<DigitChars[(n % 10) + 1]>>

\* f"{n}" for an int
IntToStr(n) == IF n < 0 THEN <<"-">> \o NatToStr(0 - n) ELSE NatToStr(n)

\* ------------------------------------------------------------ pathlib
\* Path(filename).name: the last component of the path
PathName(filename) == Drop(filename, RFind(filename, "/"))

\* Path(filename).suffix: from the last dot of the name, unless the dot is
\* the first or the last character of the name
PathSuffix(filename) ==
  LET name == PathName(filename)
      i == RFind(name, ".")
  IN IF 1 < i /\ i < Len(name) THEN SubSeq(name, i, Len(name)) ELSE <<>>

\* ------------------------------------------------------------ detect_file_type
FastaExts == { <<".","f","a","s","t","a">>, <<".","f","a">>,
               <<".","f","n","a">>, <<".","f","a","a">> }
VcfExts == { <<".","v","c","f">> }
CsvExts == { <<".","c","s","v">>, <<".","t","s","v">> }
PyExts == { <<".","p","y">> }
RExts == { <<".","r">>, <<".","R">> }

\* the slip of comparing the suffix without lowering it
detect_file_type_nolower(filename, content) ==
  LET ext == PathSuffix(filename)
  IN IF ext \in FastaExts THEN "fasta"
     ELSE IF ext \in VcfExts THEN "vcf"
     ELSE IF ext \in CsvExts THEN "csv"
     ELSE IF ext \in PyExts THEN "python"
     ELSE IF ext \in RExts THEN "r"
     ELSE IF StartsWith(content, <<">">>) THEN "fasta"
     ELSE "text"

detect_file_type(filename, content) ==
  LET ext == Lower(PathSuffix(filename))
  IN IF ext \in FastaExts THEN "fasta"
     ELSE IF ext \in VcfExts THEN "vcf"
     ELSE IF ext \in CsvExts THEN "csv"
     ELSE IF ext \in PyExts THEN "python"
     ELSE IF ext \in RExts THEN "r"
     ELSE IF StartsWith(content, <<">">>) THEN "fasta"
     ELSE "text"

\* ------------------------------------------------------------ FASTA summarizer
\* outcomes of the guarded block of analyze_fasta_file: the temporary file
\* cannot be written, FastaParser was not imported, the parse raises, or
\* the block runs to its end
FastaOutcomes == {"ok", "write_fail", "no_parser", "parse_fail"}

\* str(e) of the exception caught by analyze_fasta_file
ExceptionText(outcome) ==
  IF outcome = "write_fail" THEN <<"[Errno 13] Permission denied">>
  ELSE IF outcome = "no_parser" THEN <<"name 'FastaParser' is not defined">>
  ELSE <<"Invalid FASTA format">>

\* FastaParser.parse_file, records in file order: a '>' line opens a record
\* whose id is the rest of the line, the other non-blank lines are joined
RECURSIVE ParseRecords(_, _)
ParseRecords(lines, acc) ==
  IF lines = <<>> THEN acc
  ELSE LET l == Strip(Head(lines))
       IN IF StartsWith(l, <<">">>)
          THEN ParseRecords(Tail(lines), Append(acc, [id |-> Drop(l, 1), seq |-> <<>>]))
          ELSE IF l = <<>> \/ acc = <<>>
          THEN ParseRecords(Tail(lines), acc)
          ELSE ParseRecords(Tail(lines),
                 [acc EXCEPT ![Len(acc)].seq = acc[Len(acc)].seq \o l])

\* the dictionary built from the records: a repeated id keeps its first
\* position and takes the last value
RECURSIVE DictOf(_, _)
DictOf(records, acc) ==
  IF records = <<>> THEN acc
  ELSE LET r == Head(records)
       IN IF \E i \in 1..Len(acc) : acc[i].id = r.id
          THEN DictOf(Tail(records),
                 [i \in 1..Len(acc) |-> IF acc[i].id = r.id THEN r ELSE acc[i]])
          ELSE DictOf(Tail(records), Append(acc, r))

FastaParser_parse_file(content) ==
  DictOf(ParseRecords(Split(content, "\n"), <<>>), <<>>)

\* seq.count(c)
Count(s, c) == Cardinality({i \in 1..Len(s) : s[i] = c})

\* f"{x:.1f}" of x = num / den * 100, rounded half to even on the exact value
FormatPercent(num, den) ==
  LET q == (num * 1000) \div den
      r == (num * 1000) % den
      t == IF 2 * r > den \/ (2 * r = den /\ q % 2 = 1) THEN q + 1 ELSE q
  IN NatToStr(t \div 10) \o <<".">> \o NatToStr(t % 10)

\* the per-sequence lines of the FASTA summary
RECURSIVE SequenceLines(_)
SequenceLines(records) ==
  IF records = <<>> THEN <<>>
  ELSE LET r == Head(records)
           seq_len == Len(r.seq)
           gc_count == Count(r.seq, "G") + Count(r.seq, "C")
           gc_content == IF seq_len > 0 THEN FormatPercent(gc_count, seq_len)
                         ELSE <<"0", ".", "0">>
       IN <<"\n**Sequence: ">> \o r.id \o <<"**\n">>
          \o <<"  - Length: ">> \o IntToStr(seq_len) \o <<" bp\n">>
          \o <<"  - GC Content: ">> \o gc_content \o <<"%\n">>
          \o <<"  - First 50 bases: ">> \o Take(r.seq, 50) \o <<"...\n">>
          \o SequenceLines(Tail(records))

\* the slip of letting the exception of the guarded block escape: the
\* result "raise" stands for the exception leaving the function
analyze_fasta_file_unguarded(content, filename, outcome) ==
  IF outcome = "ok"
  THEN LET sequences == FastaParser_parse_file(content)
       IN [raised |-> FALSE,
           text |-> <<"**FASTA File Analysis: ">> \o filename \o <<"**\n\n">>
                    \o <<"- Number of sequences: ">> \o IntToStr(Len(sequences)) \o <<"\n">>
                    \o SequenceLines(sequences)]
  ELSE [raised |-> TRUE, text |-> ExceptionText(outcome)]

\* analyze_fasta_file: every exception of the block becomes the returned text
analyze_fasta_file(content, filename, outcome) ==
  IF outcome = "ok"
  THEN LET sequences == FastaParser_parse_file(content)
       IN [raised |-> FALSE,
           text |-> <<"**FASTA File Analysis: ">> \o filename \o <<"**\n\n">>
                    \o <<"- Number of sequences: ">> \o IntToStr(Len(sequences)) \o <<"\n">>
                    \o SequenceLines(sequences)]
  ELSE [raised |-> FALSE,
        text |-> <<"Error analyzing FASTA file: ">> \o ExceptionText(outcome)]

\* ------------------------------------------------------------ VCF summarizer
analyze_vcf_file(content, filename) ==
  LET lines == Split(content, "\n")
      IsHeader(l) == StartsWith(l, <<"#", "#">>)
      IsColumn(l) == StartsWith(l, <<"#", "C", "H", "R", "O", "M">>)
      IsVariant(l) == l # <<>> /\ ~StartsWith(l, <<"#">>)
      header_lines == SelectSeq(lines, IsHeader)
      column_line == SelectSeq(lines, IsColumn)
      variant_lines == SelectSeq(lines, IsVariant)
      columns == Split(column_line[1], "\t")
  IN <<"**VCF File Analysis: ">> \o filename \o <<"**\n\n">>
     \o <<"- Header lines: ">> \o IntToStr(Len(header_lines)) \o <<"\n">>
     \o <<"- Variant records: ">> \o IntToStr(Len(variant_lines)) \o <<"\n">>
     \o (IF column_line # <<>>
         THEN <<"- Columns: ">> \o IntToStr(Len(columns)) \o <<"\n">>
              \o <<"- Sample columns: ">>
              \o IntToStr(Len(columns) - VcfFixedColumns) \o <<"\n">>
         ELSE <<>>)
     \o (IF variant_lines # <<>>
         THEN <<"\n**First variant:**\n", Fence, "\n">> \o variant_lines[1] \o <<"\n", Fence, "\n">>
         ELSE <<>>)

\* ------------------------------------------------------------ CSV/TSV summarizer
analyze_csv_file(content, filename) ==
  LET lines == Split(content, "\n")
      NonBlank(l) == Strip(l) # <<>>
      non_empty_lines == SelectSeq(lines, NonBlank)
      first_line == non_empty_lines[1]
      tsv == Contains(first_line, "\t")
      columns == Split(first_line, IF tsv THEN "\t" ELSE ",")
  IN <<"**CSV/TSV File Analysis: ">> \o filename \o <<"**\n\n">>
     \o <<"- Total lines: ">> \o IntToStr(Len(non_empty_lines)) \o <<"\n">>
     \o (IF non_empty_lines # <<>>
         THEN (IF tsv THEN <<"- Format: TSV (tab-separated)\n">>
                      ELSE <<"- Format: CSV (comma-separated)\n">>)
              \o <<"- Columns: ">> \o IntToStr(Len(columns)) \o <<"\n">>
              \o <<"- Column headers: ">> \o Join(Take(columns, HeaderShown), <<", ">>)
              \o (IF Len(columns) > HeaderShown
                  THEN <<" ... (">> \o IntToStr(Len(columns) - HeaderShown) \o <<" more)">>
                  ELSE <<>>)
              \o <<"\n">>
              \o (IF Len(non_empty_lines) > 1
                  THEN <<"- Data rows: ">> \o IntToStr(Len(non_empty_lines) - 1) \o <<"\n">>
                       \o <<"\n**First row:**\n", Fence, "\n">> \o non_empty_lines[2] \o <<"\n", Fence, "\n">>
                  ELSE <<>>)
         ELSE <<>>)

\* ------------------------------------------------------------ code summarizer
\* the "  - {func}\n" lines of the first functions
RECURSIVE FunctionLines(_)
FunctionLines(functions) ==
  IF functions = <<>> THEN <<>>
  ELSE <<"  - ">> \o Head(functions) \o <<"\n">> \o FunctionLines(Tail(functions))

\* [l.strip() for l in lines]
StripAll(lines) == [i \in 1..Len(lines) |-> Strip(lines[i])]

analyze_code_file(content, filename, language) ==
  LET lines == Split(content, "\n")
      NonBlank(l) == Strip(l) # <<>>
      IsComment(l) == StartsWith(Strip(l), <<"#">>)
      IsDef(l) == StartsWith(Strip(l), <<"d", "e", "f", " ">>)
      IsClass(l) == StartsWith(Strip(l), <<"c", "l", "a", "s", "s", " ">>)
      IsImport(l) == \/ StartsWith(Strip(l), <<"i", "m", "p", "o", "r", "t", " ">>)
                     \/ StartsWith(Strip(l), <<"f", "r", "o", "m", " ">>)
      python == language = <<"p", "y", "t", "h", "o", "n">>
      non_empty_lines == SelectSeq(lines, NonBlank)
      comment_lines == IF python \/ language = <<"r">>
                       THEN SelectSeq(lines, IsComment) ELSE <<>>
      functions == StripAll(SelectSeq(lines, IsDef))
      classes == StripAll(SelectSeq(lines, IsClass))
      imports == StripAll(SelectSeq(lines, IsImport))
  IN <<"**">> \o Upper(language) \o <<" Code Analysis: ">> \o filename \o <<"**\n\n">>
     \o <<"- Total lines: ">> \o IntToStr(Len(lines)) \o <<"\n">>
     \o <<"- Non-empty lines: ">> \o IntToStr(Len(non_empty_lines)) \o <<"\n">>
     \o <<"- Comment lines: ">> \o IntToStr(Len(comment_lines)) \o <<"\n">>
     \o (IF python
         THEN (IF imports # <<>>
               THEN <<"- Import statements: ">> \o IntToStr(Len(imports)) \o <<"\n">>
               ELSE <<>>)
              \o (IF classes # <<>>
                  THEN <<"- Classes defined: ">> \o IntToStr(Len(classes)) \o <<"\n">>
                  ELSE <<>>)
              \o (IF functions # <<>>
                  THEN <<"- Functions defined: ">> \o IntToStr(Len(functions)) \o <<"\n">>
                       \o <<"\n**Functions:**\n">>
                       \o FunctionLines(Take(functions, HeaderShown))
                       \o (IF Len(functions) > HeaderShown
                           THEN <<"  ... (">> \o IntToStr(Len(functions) - HeaderShown)
                                \o <<" more)\n">>
                           ELSE <<>>)
                  ELSE <<>>)
         ELSE <<>>)

\* ------------------------------------------------------------ analyze_uploaded_file
\* the result is [raised, text]: raised is TRUE when an exception leaves the
\* summarizer
analyze_uploaded_file(filename, content, outcome) ==
  LET file_type == detect_file_type(filename, content)
  IN IF file_type = "fasta" THEN analyze_fasta_file(content, filename, outcome)
     ELSE [raised |-> FALSE,
           text |->
             IF file_type = "vcf" THEN analyze_vcf_file(content, filename)
             ELSE IF file_type = "csv" THEN analyze_csv_file(content, filename)
             ELSE IF file_type = "python"
             THEN analyze_code_file(content, filename, <<"p", "y", "t", "h", "o", "n">>)
             ELSE IF file_type = "r" THEN analyze_code_file(content, filename, <<"r">>)
             ELSE <<"**Text File Analysis: ">> \o filename \o <<"**\n\n- Lines: ">>
                  \o IntToStr(Len(Split(content, "\n"))) \o <<"\n- Characters: ">>
                  \o IntToStr(Len(content)) \o <<"\n">>]

\* ------------------------------------------------------------ build_context_message
\* the result is [raised, text]; the arguments are Optional[str]
build_context_message(file_content, file_name, code_snippet, outcome) ==
  LET has_file == Truthy(file_content) /\ Truthy(file_name)
      file_analysis == analyze_uploaded_file(file_name.val, file_content.val, outcome)
      file_part ==
        <<"**Uploaded File Context:**\n">> \o file_analysis.text
        \o <<"\n\n**File Content:**\n", Fence, "\n">>
        \o Take(file_content.val, PreviewLimit)
        \o (IF Len(file_content.val) > PreviewLimit THEN <<"...">> ELSE <<>>)
        \o <<"\n", Fence>>
      has_code == Truthy(code_snippet) /\ Strip(code_snippet.val) # <<>>
      code_part == <<"**Code Snippet:**\n", Fence, "\n">> \o code_snippet.val
                   \o <<"\n", Fence>>
      context_parts == (IF has_file THEN <<file_part>> ELSE <<>>)
                       \o (IF has_code THEN <<code_part>> ELSE <<>>)
  IN IF has_file /\ file_analysis.raised
     THEN [raised |-> TRUE, text |-> <<>>]
     ELSE [raised |-> FALSE, text |-> Join(context_parts, <<"\n\n">>)]

\* ------------------------------------------------------------ get_ai_response
\* get_system_prompt()
SystemPrompt == <<"You are an expert AI assistant specialized in bioinformatics and software development.">>

UserMsg(content) == [role |-> "user", content |-> content]
AssistantMsg(content) == [role |-> "assistant", content |-> content]
SystemMsg(content) == [role |-> "system", content |-> content]

\* the messages argument of client.chat.completions.create
RequestMessages(history, user_message, context) ==
  <<SystemMsg(SystemPrompt)>>
  \o LastN(history, HistoryWindow)
  \o (IF context # <<>> THEN <<UserMsg(<<"Context:\n">> \o context)>> ELSE <<>>)
  \o <<UserMsg(user_message)>>

\* the slip of trimming the stored list in place while building the request
get_ai_response_trimming(history, user_message, context, api) ==
  [raised |-> FALSE,
   request |-> RequestMessages(history, user_message, context),
   stored |-> LastN(history, HistoryWindow),
   text |-> IF api.ok THEN api.text
            ELSE <<"Error getting AI response: ">> \o api.text
                 \o <<"\n\nPlease check your API key and try again.">>]

\* the slip of letting the exception of the chat call escape
get_ai_response_unguarded(history, user_message, context, api) ==
  [raised |-> ~api.ok,
   request |-> RequestMessages(history, user_message, context),
   stored |-> history,
   text |-> api.text]

\* get_ai_response: history is st.session_state.messages at the call, api is
\* what the chat call does (a reply, or an exception with its text).  The
\* result carries the request that was issued, the stored list after the
\* call, and the returned text.
get_ai_response(history, user_message, context, api) ==
  [raised |-> FALSE,
   request |-> RequestMessages(history, user_message, context),
   stored |-> history,
   text |-> IF api.ok THEN api.text
            ELSE <<"Error getting AI response: ">> \o api.text
                 \o <<"\n\nPlease check your API key and try again.">>]

\* ------------------------------------------------------------ get_openai_client
\* the slip of handing out a client object although its construction failed
get_openai_client_unchecked(key, construct_ok) == key # <<>>

\* get_openai_client: TRUE when a client is returned, FALSE for None
get_openai_client(key, construct_ok) ==
  IF key = <<>> THEN FALSE
  ELSE construct_ok

\* ------------------------------------------------------------ bytes.decode('utf-8')
\* chr(b) for the printable ASCII codes 32..126
Ascii == <<" ", "!", "\"", "#", "$", "%", "&", "'", "(", ")", "*", "+",
           ",", "-", ".", "/", "0", "1", "2", "3", "4", "5", "6", "7",
           "8", "9", ":", ";", "<", "=", ">", "?", "@", "A", "B", "C",
           "D", "E", "F", "G", "H", "I", "J", "K", "L", "M", "N", "O",
           "P", "Q", "R", "S", "T", "U", "V", "W", "X", "Y", "Z", "[",
           "\\", "]", "^", "_", "<backquote>", "a", "b", "c", "d", "e", "f", "g",
           "h", "i", "j", "k", "l", "m", "n", "o", "p", "q", "r", "s",
           "t", "u", "v", "w", "x", "y", "z", "{", "|", "}", "~">>

Chr(b) == IF b = 10 THEN "\n" ELSE IF b = 9 THEN "\t" ELSE IF b = 13 THEN "\r"
          ELSE IF b \in 32..126 THEN Ascii[b - 31]
          ELSE "\\x" \o ToString(b)

\* the bytes are a sequence of 0..255; the result is [ok, text], ok FALSE
\* for UnicodeDecodeError.  One-byte and two-byte sequences are decoded,
\* every other lead byte is an error.
RECURSIVE Decode(_)
Decode(bytes) ==
  IF bytes = <<>> THEN [ok |-> TRUE, text |-> <<>>]
  ELSE LET b == Head(bytes)
       IN IF b \in 0..127
          THEN LET rest == Decode(Tail(bytes))
               IN [ok |-> rest.ok, text |-> <<Chr(b)>> \o rest.text]
          ELSE IF b \in 194..223 /\ Len(bytes) >= 2 /\ bytes[2] \in 128..191
          THEN LET rest == Decode(Tail(Tail(bytes)))
                   cp == (b - 192) * 64 + (bytes[2] - 128)
               IN [ok |-> rest.ok, text |-> <<"U+" \o ToString(cp)>> \o rest.text]
          ELSE [ok |-> FALSE, text |-> <<>>]

\* ------------------------------------------------------------ session and widgets
\* st.session_state.messages
VARIABLE messages
\* st.session_state.uploaded_file_content
VARIABLE uploaded_file_content
\* st.session_state.uploaded_file_name
VARIABLE uploaded_file_name
\* st.session_state.api_key
VARIABLE api_key
\* the file held by the st.file_uploader widget
VARIABLE uploader
\* what the last script run did and showed
VARIABLE run
\* inputs and results of the helper functions run on their own
VARIABLE pure

vars == <<messages, uploaded_file_content, uploaded_file_name, api_key,
          uploader, run, pure>>

\* str -> bytes of the characters used by the files below
Ord(c) == CHOOSE b \in 0..127 : Chr(b) = c
Encode(s) == [i \in 1..Len(s) |-> Ord(s[i])]

NoFile == [present |-> FALSE, name |-> <<>>, data |-> <<>>]
File(name, data) == [present |-> TRUE, name |-> name, data |-> data]

FastaFile == File(<<"s", ".", "f", "a">>, Encode(<<">", "A", "\n", "G", "C">>))
TextFile == File(<<"n", ".", "t", "x", "t">>, Encode(<<"h", "i">>))
EmptyFile == File(<<"e", ".", "t", "x", "t">>, <<>>)
BinaryFile == File(<<"b", ".", "t", "x", "t">>, <<255, 254>>)

Files == {FastaFile, EmptyFile, BinaryFile}
FilesLong == {TextFile, BinaryFile}

ApiKeys == { <<>>, <<"s", "k">> }

Questions == { <<>>, <<" ">>, <<"q", " ">> }
Snippets == { <<"\n">>, <<"x", " ">> }
\* two of LANGUAGES
Languages == { <<"P", "y", "t", "h", "o", "n">>, <<"R">> }
\* what the chat call does, when a client was made: a reply, or an exception
ApiResults == { [ok |-> TRUE, text |-> <<"o", "k">>],
                [ok |-> FALSE, text |-> <<"Connection error.">>] }

\* ------------------------------------------------------------ the upload block
\* the slip of storing the name before the bytes are decoded
upload_block_name_first(up, content, name) ==
  IF ~up.present THEN [content |-> content, name |-> name, error |-> FALSE]
  ELSE LET d == Decode(up.data)
       IN IF d.ok
          THEN [content |-> Some(d.text), name |-> Some(up.name), error |-> FALSE]
          ELSE [content |-> content, name |-> Some(up.name), error |-> TRUE]

\* render_main_content, "if uploaded_file is not None": the session's
\* artifact after the block, and whether st.error was shown
upload_block(up, content, name) ==
  IF ~up.present THEN [content |-> content, name |-> name, error |-> FALSE]
  ELSE LET d == Decode(up.data)
       IN IF d.ok
          THEN [content |-> Some(d.text), name |-> Some(up.name), error |-> FALSE]
          ELSE [content |-> content, name |-> name, error |-> TRUE]

\* ------------------------------------------------------------ the submit block
\* the slip of testing the uploaded file before the pasted code
default_question_file_first(user_message, context, code_input, language, file_content) ==
  IF user_message = <<>> /\ context # <<>>
  THEN IF Truthy(file_content)
       THEN <<"Please analyze this file and provide relevant insights and suggestions.">>
       ELSE IF Strip(code_input) # <<>>
       THEN <<"Please explain and analyze this ">> \o language
            \o <<" code. Suggest any improvements or potential issues.">>
       ELSE user_message
  ELSE user_message

\* render_main_content, "if not user_message and context"
default_question(user_message, context, code_input, language, file_content) ==
  IF user_message = <<>> /\ context # <<>>
  THEN IF Strip(code_input) # <<>>
       THEN <<"Please explain and analyze this ">> \o language
            \o <<" code. Suggest any improvements or potential issues.">>
       ELSE IF Truthy(file_content)
       THEN <<"Please analyze this file and provide relevant insights and suggestions.">>
       ELSE user_message
  ELSE user_message

\* what a script run leaves when the submit block is not entered
NoSubmit(msgs) ==
  [messages |-> msgs, errors |-> {}, sent |-> FALSE, request |-> <<>>,
   user_message |-> <<>>, context |-> <<>>, raised |-> FALSE, rerun |-> FALSE]

\* the submit block after get_ai_response returned (or raised): the
\* assistant message is appended and st.rerun() is called
submit_response(base, response) ==
  IF response.raised
  THEN [base EXCEPT !.messages = response.stored, !.sent = TRUE,
                    !.request = response.request, !.raised = TRUE]
  ELSE [base EXCEPT !.messages = Append(response.stored, AssistantMsg(response.text)),
                    !.sent = TRUE, !.request = response.request, !.rerun = TRUE]

\* the submit block from "if not user_message": the two early returns, the
\* append of the user message, the chat call
submit_message(msgs, key, in, context, user_message) ==
  LET base == [NoSubmit(msgs) EXCEPT !.user_message = user_message,
                                     !.context = context]
      display_message == IF context # <<>>
                         THEN user_message \o <<"\n\n">> \o context
                         ELSE user_message
  IN IF user_message = <<>>
     THEN [base EXCEPT !.errors = {"Please enter a question or provide code/file to analyze."}]
     ELSE IF ~get_openai_client(key, in.construct_ok)
     THEN [base EXCEPT !.errors =
             {"Please configure your OpenAI API key in the sidebar."}
             \cup (IF key # <<>> THEN {"Error initializing OpenAI client"} ELSE {})]
     ELSE submit_response(base,
            get_ai_response(Append(msgs, UserMsg(display_message)),
                            user_message, context, in.api))

\* the submit block after build_context_message returned (or raised)
submit_context(msgs, content, key, in, built) ==
  IF built.raised
  THEN [NoSubmit(msgs) EXCEPT !.raised = TRUE]
  ELSE submit_message(msgs, key, in, built.text,
         default_question(Strip(in.question), built.text, in.code, in.language, content))

\* render_main_content, "if submit": in = [question, code, language,
\* construct_ok, api, fasta] are the widget values and what the
\* environment does during the run
submit_block(msgs, content, name, key, in) ==
  submit_context(msgs, content, key, in,
    build_context_message(content, name,
      IF Strip(in.code) # <<>> THEN Some(in.code) ELSE None, in.fasta))

\* ------------------------------------------------------------ script runs
\* widget values of a run in which the submit button is not pressed
NoInput == [question |-> <<>>, code |-> <<>>, language |-> <<"P", "y", "t", "h", "o", "n">>,
            construct_ok |-> TRUE, api |-> [ok |-> TRUE, text |-> <<>>], fasta |-> "ok"]

\* the page's result: what the submit block left (s), the artifact and the
\* error of the upload block (u)
page_result(s, u) ==
  [s EXCEPT !.errors = s.errors \cup (IF u.error THEN {"Error reading file"} ELSE {})]
  @@ [content |-> u.content, name |-> u.name]

\* render_main_content after the upload block
page_after_upload(msgs, key, submit, in, u) ==
  page_result(IF submit THEN submit_block(msgs, u.content, u.name, key, in)
              ELSE NoSubmit(msgs), u)

\* render_main_content: one pass over the page.  Without an API key the
\* page stops after the warning, before the widgets.
render_main_content(msgs, content, name, key, up, submit, in) ==
  IF key = <<>>
  THEN [NoSubmit(msgs) EXCEPT !.errors = {"no api key"}]
       @@ [content |-> content, name |-> name]
  ELSE page_after_upload(msgs, key, submit, in, upload_block(up, content, name))

\* the session after the run that st.rerun() starts, with the errors of
\* both runs
rerun_result(first, second) ==
  [first EXCEPT !.messages = second.messages, !.content = second.content,
                !.name = second.name,
                !.errors = first.errors \cup second.errors]

\* the run started by st.rerun(), when the first run ended with it: the
\* button is not pressed in it
rerun_after(first, key, up) ==
  IF first.rerun
  THEN rerun_result(first,
         render_main_content(first.messages, first.content, first.name,
                             key, up, FALSE, NoInput))
  ELSE first

\* main(): the run started by a widget, and the run started by st.rerun()
\* when the first one ends with it.  rerun_first is TRUE when the sidebar
\* calls st.rerun() before the page is rendered.
script_run(msgs, content, name, key, up, submit, in, rerun_first) ==
  rerun_after(IF rerun_first
              THEN [NoSubmit(msgs) EXCEPT !.rerun = TRUE]
                   @@ [content |-> content, name |-> name]
              ELSE render_main_content(msgs, content, name, key, up, submit, in),
              key, up)

\* the record of a run: its trigger, its inputs, the session before it, and
\* what it showed and sent
RunRecord(kind, in, r) ==
  [kind |-> kind, in |-> in,
   pre_messages |-> messages, pre_content |-> uploaded_file_content,
   pre_name |-> uploaded_file_name,
   errors |-> r.errors, sent |-> r.sent, request |-> r.request,
   user_message |-> r.user_message, context |-> r.context, raised |-> r.raised]

Idle == [phase |-> "idle", filename |-> <<>>, ext |-> <<>>, file_given |-> FALSE,
         content |-> <<>>, snippet |-> None, outcome |-> "ok", file_type |-> "",
         context |-> <<>>]

\* initialize_session_state: the key comes from the environment
Init ==
  /\ messages = <<>>
  /\ uploaded_file_content = None
  /\ uploaded_file_name = None
  /\ api_key \in ApiKeys
  /\ uploader = NoFile
  /\ run = [kind |-> "init", in |-> NoInput,
            pre_messages |-> <<>>, pre_content |-> None, pre_name |-> None,
            errors |-> {}, sent |-> FALSE, request |-> <<>>,
            user_message |-> <<>>, context |-> <<>>, raised |-> FALSE]
  /\ pure = Idle

\* the run's result becomes the session
Commit(kind, in, r) ==
  /\ messages' = r.messages
  /\ uploaded_file_content' = r.content
  /\ uploaded_file_name' = r.name
  /\ run' = RunRecord(kind, in, r)
  /\ UNCHANGED pure

\* render_sidebar: the text input holds another key than the session.  With
\* an empty key the page returns before the uploader, and a widget that a
\* complete run does not render loses its value.
SetApiKey ==
  \E k \in ApiKeys :
    /\ k # api_key
    /\ api_key' = k
    /\ uploader' = IF k = <<>> THEN NoFile ELSE uploader
    /\ Commit("api_key", NoInput,
              script_run(messages, uploaded_file_content, uploaded_file_name,
                         k, uploader, FALSE, NoInput, TRUE))

\* render_sidebar: the Clear Conversation button
ClearConversation ==
  /\ UNCHANGED <<api_key, uploader>>
  /\ Commit("clear", NoInput,
            script_run(<<>>, None, None, api_key, uploader, FALSE, NoInput, TRUE))

\* the user puts a file into the uploader
ChooseFileFrom(files) ==
  \E f \in files :
    /\ api_key # <<>>
    /\ f # uploader
    /\ uploader' = f
    /\ UNCHANGED api_key
    /\ Commit("upload", NoInput,
              script_run(messages, uploaded_file_content, uploaded_file_name,
                         api_key, f, FALSE, NoInput, FALSE))

\* the user takes the file out of the uploader
RemoveFile ==
  /\ uploader.present
  /\ uploader' = NoFile
  /\ UNCHANGED api_key
  /\ Commit("remove", NoInput,
            script_run(messages, uploaded_file_content, uploaded_file_name,
                       api_key, NoFile, FALSE, NoInput, FALSE))

\* the Get Help button, with the widget values in
SubmitWith(in, max_turns) ==
  /\ api_key # <<>>
  /\ Len(messages) < 2 * max_turns
  /\ UNCHANGED <<api_key, uploader>>
  /\ Commit("submit", in,
            script_run(messages, uploaded_file_content, uploaded_file_name,
                       api_key, uploader, TRUE, in, FALSE))

ChooseFile == ChooseFileFrom(Files)

\* the FASTA summarizer runs only for an artifact classified as fasta, so
\* only then does its environment have an outcome to choose
FastaRuns ==
  LET u == upload_block(uploader, uploaded_file_content, uploaded_file_name)
  IN /\ Truthy(u.content) /\ Truthy(u.name)
     /\ detect_file_type(u.name.val, u.content.val) = "fasta"

Submit ==
  \E q \in Questions, c \in Snippets, l \in Languages, ok \in BOOLEAN,
     f \in (IF FastaRuns THEN FastaOutcomes ELSE {"ok"}) :
   \E a \in (IF ok THEN ApiResults ELSE {NoInput.api}) :
    SubmitWith([question |-> q, code |-> c, language |-> l, construct_ok |-> ok,
                api |-> a, fasta |-> f], MaxTurns)

Next == SetApiKey \/ ClearConversation \/ ChooseFile \/ RemoveFile \/ Submit

Spec == Init /\ [][Next]_vars

\* long conversations: plain questions only
ChooseFileLong == ChooseFileFrom(FilesLong)

SubmitLong ==
  \E ok \in BOOLEAN :
   \E a \in (IF ok THEN ApiResults ELSE {NoInput.api}) :
    SubmitWith([NoInput EXCEPT !.question = <<"q", " ">>, !.construct_ok = ok,
                               !.api = a], MaxTurnsLong)

NextLong == SetApiKey \/ ClearConversation \/ ChooseFileLong \/ RemoveFile \/ SubmitLong

SpecLong == Init /\ [][NextLong]_vars

\* ------------------------------------------------------------ the helpers on their own
\* file names as a stem followed by an extension
Stems == { <<"a">>, <<"a", ".", "b">>, <<"d", ".", "f", "a", "/", "x">> }
Extensions == { <<>>,
                <<".", "f", "a", "s", "t", "a">>, <<".", "f", "a">>, <<".", "F", "a">>,
                <<".", "f", "n", "a">>, <<".", "f", "a", "a">>,
                <<".", "v", "c", "f">>, <<".", "V", "C", "F">>,
                <<".", "c", "s", "v">>, <<".", "t", "s", "v">>,
                <<".", "p", "y">>, <<".", "P", "Y">>,
                <<".", "r">>, <<".", "R">>,
                <<".", "t", "x", "t">>, <<".", "g", "z">>, <<".", "f", "a", "s">> }

\* names whose only dot is the first or the last character: no extension
DotNames == { <<".", "p", "y">>, <<"a", ".", "p", "y", ".">>, <<".", "f", "a">> }

NameCases ==
  { [filename |-> st \o e, ext |-> e] : st \in Stems, e \in Extensions }
  \cup { [filename |-> n, ext |-> <<>>] : n \in DotNames }

\* a text longer than the preview
LongText == [i \in 1..(PreviewLimit + 1) |-> "A"]

Contents == { <<>>, <<"h", "i">>, <<">", "A", "\n", "G", "C">>,
              <<"x", ",", "y", "\n", "1", ",", "2">>, LongText }

SnippetArgs == { None, Some(<<>>), Some(<<" ", "\n">>), Some(<<"x", " ">>) }

PureInputs ==
  { [phase |-> "input", filename |-> n.filename, ext |-> n.ext, file_given |-> g,
     content |-> c, snippet |-> sn, outcome |-> o, file_type |-> "", context |-> <<>>] :
    n \in NameCases, g \in BOOLEAN, c \in Contents, sn \in SnippetArgs,
    o \in {"ok", "parse_fail"} }

InitPure ==
  /\ messages = <<>>
  /\ uploaded_file_content = None
  /\ uploaded_file_name = None
  /\ api_key = <<>>
  /\ uploader = NoFile
  /\ run = [kind |-> "init", in |-> NoInput,
            pre_messages |-> <<>>, pre_content |-> None, pre_name |-> None,
            errors |-> {}, sent |-> FALSE, request |-> <<>>,
            user_message |-> <<>>, context |-> <<>>, raised |-> FALSE]
  /\ pure \in PureInputs

\* detect_file_type(filename, content)
Classify ==
  /\ pure.phase = "input"
  /\ pure' = [pure EXCEPT !.phase = "classified",
                          !.file_type = detect_file_type(pure.filename, pure.content)]
  /\ UNCHANGED <<messages, uploaded_file_content, uploaded_file_name, api_key,
                 uploader, run>>

\* build_context_message(file_content, file_name, code_snippet)
BuildContext ==
  /\ pure.phase = "input"
  /\ pure' = [pure EXCEPT
       !.phase = "built",
       !.context = build_context_message(
                     IF pure.file_given THEN Some(pure.content) ELSE None,
                     IF pure.file_given THEN Some(pure.filename) ELSE None,
                     pure.snippet, pure.outcome).text]
  /\ UNCHANGED <<messages, uploaded_file_content, uploaded_file_name, api_key,
                 uploader, run>>

NextPure == Classify \/ BuildContext

SpecPure == InitPure /\ [][NextPure]_vars

\* ------------------------------------------------------------ properties
IsPrefix(a, b) == Len(a) <= Len(b) /\ SubSeq(b, 1, Len(a)) = a

\* every character is whitespace (also true of the empty text)
Blank(s) == \A i \in 1..Len(s) : s[i] \in Whitespace

\* the run was a submission whose chat call was made
ReachedChat == run.kind = "submit" /\ run.sent

\* the messages of the request between the system instruction and the
\* context and question messages
HistoryPortion ==
  SubSeq(run.request, 2, Len(run.request) - (IF run.context # <<>> THEN 2 ELSE 1))

\* C1: for every submission that reaches the chat call, the history portion
\* of the request is exactly the last min(10, n) of the n messages stored
\* before the submission, in order; it has at most 10 entries and does not
\* hold the message of the turn being submitted.
C1_HistoryIsPriorWindow ==
  ReachedChat =>
    /\ HistoryPortion = LastN(run.pre_messages, HistoryWindow)
    /\ Len(HistoryPortion) <= HistoryWindow

\* the submission was made without a usable credential: the key is empty or
\* the client cannot be constructed
NoCredential == api_key = <<>> \/ ~run.in.construct_ok

ConfigError == "Please configure your OpenAI API key in the sidebar."
InputError == "Please enter a question or provide code/file to analyze."

\* C2: a submission made with no usable credential issues no chat request
\* and leaves the message history exactly as it was; when it carries a
\* question or a context (so that the client is asked for) it halts with
\* the configuration error.
C2_NoCredentialHalts ==
  (run.kind = "submit" /\ NoCredential) =>
    /\ ~run.sent
    /\ run.request = <<>>
    /\ messages = run.pre_messages
    /\ (run.user_message # <<>> => ConfigError \in run.errors)

\* C2 happens: a submission with a question and a client that cannot be made
C2_Witness ==
  /\ run.kind = "submit" /\ ~run.in.construct_ok /\ api_key # <<>>
  /\ run.user_message # <<>>
  /\ ConfigError \in run.errors
  /\ messages = run.pre_messages

\* C3: every submission that reaches the chat call appends exactly two
\* messages, a user message and then an assistant message, whether the chat
\* call succeeds or fails (on failure the assistant message is the text
\* that describes the failure); the stored history has even length and
\* alternates user, assistant.
C3_TurnIsTwoMessages ==
  /\ ReachedChat =>
       LET n == Len(run.pre_messages)
       IN /\ Len(messages) = n + 2
          /\ SubSeq(messages, 1, n) = run.pre_messages
          /\ messages[n + 1].role = "user"
          /\ IsPrefix(run.user_message, messages[n + 1].content)
          /\ messages[n + 2].role = "assistant"
          /\ run.in.api.ok => messages[n + 2].content = run.in.api.text
          /\ ~run.in.api.ok =>
               /\ messages[n + 2].content[1] = "Error getting AI response: "
               /\ SubSeq(messages[n + 2].content, 2, 1 + Len(run.in.api.text))
                    = run.in.api.text
  /\ Len(messages) % 2 = 0
  /\ \A i \in 1..Len(messages) :
       messages[i].role = IF i % 2 = 1 THEN "user" ELSE "assistant"

\* C3 happens: a failed chat call in a conversation that already has turns
C3_Witness ==
  /\ ReachedChat /\ ~run.in.api.ok
  /\ Len(run.pre_messages) >= 2
  /\ Len(messages) = Len(run.pre_messages) + 2
  /\ messages[Len(messages)].role = "assistant"

\* C4: in the session observable after the reset action, re-render
\* included, the message list is empty and no artifact is stored, neither
\* name nor content.
C4_ResetClearsBoth ==
  run.kind = "clear" =>
    /\ messages = <<>>
    /\ uploaded_file_content = None
    /\ uploaded_file_name = None

\* the bytes hold a byte that no UTF-8 text contains
NotUtf8(data) == \E i \in 1..Len(data) : data[i] \in 245..255

\* C5: when the bytes of an uploaded file are not UTF-8 text, the upload is
\* rejected with an error shown to the user and the session's artifact is
\* unchanged: name and content are what they were before.  The same holds
\* of a later submission made while the uploader still holds that file.
C5_DecodeFailureKeepsArtifact ==
  (run.kind \in {"upload", "submit"} /\ NotUtf8(uploader.data)) =>
    /\ "Error reading file" \in run.errors
    /\ uploaded_file_content = run.pre_content
    /\ uploaded_file_name = run.pre_name

\* C5 happens: an undecodable file is chosen while an artifact is stored
C5_Witness ==
  /\ run.kind = "upload" /\ NotUtf8(uploader.data)
  /\ ~run.pre_content.isNone /\ ~run.pre_name.isNone
  /\ uploaded_file_name = run.pre_name

\* C6: every action other than the reset leaves the stored history a prefix
\* of the history after it; building a request does not shorten or change
\* the stored list.
C6_AppendOnly ==
  [][run'.kind # "clear" => IsPrefix(messages, messages')]_vars

\* C6 happens: a request was built from a history longer than the window
C6_Witness ==
  /\ ReachedChat
  /\ Len(run.pre_messages) >= HistoryWindow
  /\ Len(messages) > HistoryWindow
  /\ Len(HistoryPortion) = HistoryWindow

\* the kind the extension stands for, compared without regard to case
KindOfExtension(ext) ==
  LET e == Lower(ext)
  IN IF e \in { <<".", "f", "a", "s", "t", "a">>, <<".", "f", "a">>,
                <<".", "f", "n", "a">>, <<".", "f", "a", "a">> } THEN "fasta"
     ELSE IF e = <<".", "v", "c", "f">> THEN "vcf"
     ELSE IF e \in { <<".", "c", "s", "v">>, <<".", "t", "s", "v">> } THEN "csv"
     ELSE IF e = <<".", "p", "y">> THEN "python"
     ELSE IF e = <<".", "r">> THEN "r"
     ELSE "none"

\* C7: detect_file_type decides by extension first, content second: a name
\* with a recognised extension (in any case) gets the kind of the extension
\* whatever the content; any other name, or one without extension, is fasta
\* when the content's first character is '>' and text otherwise.
C7_ExtensionThenContent ==
  pure.phase = "classified" =>
    IF KindOfExtension(pure.ext) # "none"
    THEN pure.file_type = KindOfExtension(pure.ext)
    ELSE IF pure.content # <<>> /\ pure.content[1] = ">"
    THEN pure.file_type = "fasta"
    ELSE pure.file_type = "text"

\* C7 happens: an upper-case extension decides against the content
C7_Witness ==
  /\ pure.phase = "classified"
  /\ pure.ext = <<".", "P", "Y">>
  /\ pure.content # <<>> /\ pure.content[1] = ">"
  /\ pure.file_type = "python"

\* the snippet argument is absent: None, empty or whitespace only
SnippetAbsent(sn) == sn.isNone \/ Blank(sn.val)

\* the block of a pasted snippet, the snippet in full
SnippetBlock(sn) == <<"**Code Snippet:**\n", Fence, "\n">> \o sn \o <<"\n", Fence>>

\* the text is a file block, one blank-line separator, and the snippet block
TwoBlocks(text, sn) ==
  LET k == Len(text) - Len(SnippetBlock(sn))
  IN /\ k >= 2
     /\ SubSeq(text, k + 1, Len(text)) = SnippetBlock(sn)
     /\ text[k] = "\n\n"
     /\ text[1] = "**Uploaded File Context:**\n"
     /\ text[k - 1] = Fence
     /\ \A i \in 1..(k - 1) : text[i] # "\n\n"

\* C8: build_context_message returns the empty string when given neither an
\* artifact nor a snippet (an empty or whitespace-only snippet is absent),
\* and given both an artifact and a non-blank snippet it returns exactly two
\* blocks joined by one blank-line separator, the file block first, the
\* snippet block second with the snippet in full.
C8_EmptyOrTwoBlocks ==
  pure.phase = "built" =>
    /\ (~pure.file_given /\ SnippetAbsent(pure.snippet)) => pure.context = <<>>
    /\ (pure.file_given /\ ~SnippetAbsent(pure.snippet)) =>
         TwoBlocks(pure.context, pure.snippet.val)

CodeQuestion(language) ==
  <<"Please explain and analyze this ">> \o language
  \o <<" code. Suggest any improvements or potential issues.">>
FileQuestion ==
  <<"Please analyze this file and provide relevant insights and suggestions.">>

\* C9: on submit with an empty or whitespace-only question: with a
\* non-blank snippet the user message is the default question that names
\* the selected language, also when a file is uploaded; with no snippet and
\* an artifact that yields a context it is the default file question; with
\* neither question nor context the submission is rejected with an error,
\* no request is sent and the history is unchanged.  The user message is
\* the last message of the request when one is sent.
C9_DefaultQuestion ==
  (run.kind = "submit" /\ Blank(run.in.question)) =>
    /\ ~Blank(run.in.code) => run.user_message = CodeQuestion(run.in.language)
    /\ (Blank(run.in.code) /\ run.context # <<>>) => run.user_message = FileQuestion
    /\ (Blank(run.in.code) /\ run.context = <<>>) =>
         /\ InputError \in run.errors
         /\ ~run.sent /\ run.request = <<>>
         /\ messages = run.pre_messages
    /\ run.sent => run.request[Len(run.request)] = UserMsg(run.user_message)

\* C9 happens: no question, a snippet and an uploaded file, request sent
C9_Witness ==
  /\ ReachedChat /\ Blank(run.in.question) /\ ~Blank(run.in.code)
  /\ Truthy(uploaded_file_content)
  /\ run.in.language = <<"R">>
  /\ run.request[Len(run.request)] = UserMsg(CodeQuestion(<<"R">>))

\* the FASTA summarizer ran in the submission and its guarded block failed
FastaFailed ==
  /\ run.kind = "submit" /\ run.in.fasta # "ok"
  /\ Truthy(uploaded_file_content) /\ Truthy(uploaded_file_name)
  /\ uploaded_file_name.val = FastaFile.name

\* C10: a failure inside the FASTA summarizer does not abort the
\* submission: the summary is the inline "Error analyzing FASTA file" text,
\* the file block still carries the raw content preview, and with a client
\* the submission reaches the chat request and appends its user and
\* assistant messages.
C10_SummarizerFailureIsInline ==
  FastaFailed =>
    LET n == Len(uploaded_file_content.val)
    IN /\ ~run.raised
       /\ run.context[1] = "**Uploaded File Context:**\n"
       /\ run.context[2] = "Error analyzing FASTA file: "
       /\ \E i \in 1..Len(run.context) :
            /\ run.context[i] = "\n\n**File Content:**\n"
            /\ SubSeq(run.context, i + 3, i + 2 + n) = uploaded_file_content.val
       /\ run.in.construct_ok =>
            /\ run.sent
            /\ Len(messages) = Len(run.pre_messages) + 2
            /\ messages[Len(messages) - 1].role = "user"
            /\ messages[Len(messages)].role = "assistant"

\* C10 happens: the parser is missing and the request is still sent
C10_Witness ==
  /\ FastaFailed /\ run.in.fasta = "no_parser"
  /\ ReachedChat
  /\ run.context[2] = "Error analyzing FASTA file: "

\* the text opens with a file block whose fenced part is the content cut to
\* its first PreviewLimit characters, followed by the ellipsis marker
\* exactly when the content is longer
HasFileBlock(text, content) ==
  LET m == IF Len(content) > PreviewLimit THEN PreviewLimit ELSE Len(content)
  IN /\ text # <<>>
     /\ text[1] = "**Uploaded File Context:**\n"
     /\ \E i \in 2..Len(text) :
          /\ text[i] = "\n\n**File Content:**\n"
          /\ Len(text) >= i + m + 4
          /\ text[i + 1] = Fence /\ text[i + 2] = "\n"
          /\ SubSeq(text, i + 3, i + 2 + m) = SubSeq(content, 1, m)
          /\ IF Len(content) > PreviewLimit
             THEN /\ text[i + 3 + m] = "..."
                  /\ text[i + 4 + m] = "\n" /\ text[i + 5 + m] = Fence
             ELSE text[i + 3 + m] = "\n" /\ text[i + 4 + m] = Fence

\* an artifact is stored in the session: a file was uploaded and decoded
ArtifactPresent == ~uploaded_file_content.isNone /\ ~uploaded_file_name.isNone

\* C11: whenever an artifact is present in the session, whatever its
\* content (the empty content of an empty file included), the context built
\* for a submission has a file block with the file's summary and the raw
\* content cut to its first 2000 characters, followed by the ellipsis
\* marker if and only if the content is longer than 2000 characters.
C11_ArtifactGetsFileBlock ==
  (run.kind = "submit" /\ ArtifactPresent) =>
    HasFileBlock(run.context, uploaded_file_content.val)

====
